---- MODULE Spec2Model ----
(***************************************************************************)
(* A model of three pieces of the Fyrox editor and its scripting example:  *)
(*   - editor/src/menu/file.rs: FileMenu, the dispatcher that turns UI     *)
(*     messages into editor Messages and window requests;                  *)
(*   - editor/src/scene/commands/sound_context.rs: the two swap-based      *)
(*     undo/redo commands over the sound context;                          *)
(*   - examples/scripting/src/lib.rs: the Player and Jumper scripts.       *)
(*                                                                         *)
(* Every handler is one action.  What a handler is given by its caller     *)
(* (the message, the editor scene, the settings, the frame's dt, the       *)
(* body's orientation) is drawn from a small set; what it hands to the     *)
(* host (messages sent, forces applied, velocities written) is recorded    *)
(* in the record of the most recent call of that component.                *)
(*                                                                         *)
(* f32 quantities are fixed point: times in tenths of a second, angles in  *)
(* milliradians.  Rounding of f32 arithmetic is not modelled.              *)
(***************************************************************************)
EXTENDS Integers, Sequences, FiniteSets, TLC

VARIABLES
    file_menu,      \* FileMenu: its widget handles and recent_files
    widgets_built,  \* how many times the recent-file items have been rebuilt
    menu_call,      \* the most recent FileMenu call: what it was given, what it sent
    scene,          \* the editor's Option<EditorScene>, passed to handle_ui_message
    unsaved,        \* what is_scene_needs_to_be_saved(scene) returns
    settings,       \* the editor's Settings, passed to the FileMenu's methods
    sound_context,  \* scene.graph.sound_context: its distance model and renderer
    commands,       \* the sound-context commands made so far, oldest first
    sound_call,     \* the most recent Command call: execute or revert, and of which
    jumper,         \* the Jumper script: timer and period
    jumper_node,    \* whether the Jumper's node is a RigidBody
    jumper_call,    \* the most recent Jumper call: what it was given, the force applied
    jumps,          \* since the last jump: dt added to the timer, timer edits
    jumpers,        \* two Jumper scripts given the same frames, and their nodes' kind
    jumpers_call,   \* the most recent call on the two: timers on entry, forces applied
    player,         \* the Player script: speed, yaw, pitch, camera, controller
    key_state,      \* per controller key, the state of its latest keyboard event
    player_call     \* the most recent Player call and what it wrote to the scene

menu_vars == <<file_menu, widgets_built, menu_call, scene, unsaved, settings>>
sound_vars == <<sound_context, commands, sound_call>>
jumper_vars == <<jumper, jumper_node, jumper_call, jumps>>
jumpers_vars == <<jumpers, jumpers_call>>
player_vars == <<player, key_state, player_call>>

vars == <<menu_vars, sound_vars, jumper_vars, jumpers_vars, player_vars>>

\* A component that is not instantiated
NoMenu ==
    /\ file_menu = "none" /\ widgets_built = 0 /\ menu_call = "none"
    /\ scene = "none" /\ unsaved = FALSE /\ settings = "none"

NoSound == sound_context = "none" /\ commands = <<>> /\ sound_call = "none"

NoJumper == jumper = "none" /\ jumper_node = FALSE /\ jumper_call = "none" /\ jumps = "none"

NoJumpers == jumpers = "none" /\ jumpers_call = "none"

NoPlayer == player = "none" /\ key_state = "none" /\ player_call = "none"

\* What the steps of one component leave alone
MenuOnly == UNCHANGED <<sound_vars, jumper_vars, jumpers_vars, player_vars>>
SoundOnly == UNCHANGED <<menu_vars, jumper_vars, jumpers_vars, player_vars>>
JumperOnly == UNCHANGED <<menu_vars, sound_vars, jumpers_vars, player_vars>>
JumpersOnly == UNCHANGED <<menu_vars, sound_vars, jumper_vars, player_vars>>
PlayerOnly == UNCHANGED <<menu_vars, sound_vars, jumper_vars, jumpers_vars>>

-----------------------------------------------------------------------------
(* Bounds of the model *)

MaxRecent == 2      \* longest settings.recent.scenes list
MaxBuilds == 1      \* rebuilds of the recent-file items (update_recent_files_list)
MaxCommands == 2    \* sound-context commands alive at once
MaxDt == 3          \* longest frame, in tenths of a second
MaxTimer == 8       \* largest timer and period a scene or the inspector sets, in tenths
MouseStep == 40     \* the mouse moves by this much, or not, along each axis per event
MaxYaw == 2000      \* yaw is followed up to this many milliradians either way
MaxSpeed == 5       \* the speed the inspector sets, in tenths
MaxFall == 2        \* the vertical speed the body may have on entry, downwards

\* Scene paths in settings.recent.scenes and in EditorScene.path; the second is not
\* valid Unicode.  CommitPaths are the paths a file selector commits.
Paths == {"a.rgs", "b<FF>.rgs"}
CommitPaths == {"c.rgs"}
NoPath == "none"

-----------------------------------------------------------------------------
(* editor/src/menu/file.rs *)

\* A Handle<UiNode>: the widget's role, the build that made it, its index there.
Handle(name) == <<name, 0, 0>>
RecentHandle(build, i) == <<"recent", build, i>>

\* settings.recent.scenes: a list of scene paths
SceneLists == UNION {[1..n -> Paths] : n \in 0..MaxRecent}

\* Option<&mut EditorScene>: None, or a scene with an optional path
NoScene == [some |-> FALSE, path |-> NoPath]
EditorScenes == {NoScene} \cup {[some |-> TRUE, path |-> p] : p \in Paths \cup {NoPath}}

\* crate::Message, as far as the file menu sends it
Message(type, action, path) == [type |-> type, action |-> action, path |-> path]
SaveScene(path) == Message("SaveScene", "none", path)
LoadScene(path) == Message("LoadScene", "none", path)
NewScene == Message("NewScene", "none", NoPath)
CloseScene == Message("CloseScene", "none", NoPath)
Exit == Message("Exit", "force=false", NoPath)
\* SaveSceneConfirmationDialogAction: MakeNewScene, OpenLoadSceneDialog, CloseScene,
\* LoadScene(path)
OpenSaveSceneConfirmationDialog(action, path) ==
    Message("OpenSaveSceneConfirmationDialog", action, path)

\* A UiMessage the menu sends to a widget
UiMsg(type, destination) == [type |-> type, destination |-> destination]

\* A UiMessage the menu receives: its data and its destination
MenuClick == [kind |-> "MenuItemMessage::Click", path |-> NoPath]
Commit(path) == [kind |-> "FileSelectorMessage::Commit", path |-> path]
OtherData == [kind |-> "other", path |-> NoPath]
MessageData == {MenuClick, OtherData} \cup {Commit(p) : p \in CommitPaths}

\* panels.configurator_window and panels.scene_settings
Panels == [configurator_window |-> Handle("configurator_window"),
           scene_settings |-> Handle("scene_settings")]

\* The message box FileMenu::new builds for the Configure item
ConfigureMessageBox ==
    [handle |-> Handle("configure_message"),
     title |-> "Warning",
     text |-> "Cannot reconfigure editor while scene is open! Close scene first and retry.",
     buttons |-> "Ok",
     open |-> FALSE]

\* Path::to_string_lossy: invalid sequences become U+FFFD
to_string_lossy(path) == IF path = "b<FF>.rgs" THEN "b<U+FFFD>.rgs" ELSE path

\* create_menu_item(text, vec![], ctx): the widget built, as handle and text
create_menu_item(handle, text) == [handle |-> handle, text |-> text]

\* The menu items make_recent_files_items builds, one per scene, in order
make_recent_files_items_rev(build, scenes) ==
    [i \in 1..Len(scenes) |->
        create_menu_item(RecentHandle(build, i),
                         to_string_lossy(scenes[Len(scenes) + 1 - i]))]

make_recent_files_items(build, scenes) ==
    [i \in 1..Len(scenes) |->
        create_menu_item(RecentHandle(build, i), to_string_lossy(scenes[i]))]

Handles(items) == [i \in 1..Len(items) |-> items[i].handle]

\* FileMenu::new
NewFileMenu(scenes) ==
    [menu |-> Handle("menu"),
     new_scene |-> Handle("new_scene"),
     save |-> Handle("save"),
     save_as |-> Handle("save_as"),
     load |-> Handle("load"),
     close_scene |-> Handle("close_scene"),
     exit |-> Handle("exit"),
     open_settings |-> Handle("open_settings"),
     configure |-> Handle("configure"),
     save_file_selector |-> Handle("save_file_selector"),
     load_file_selector |-> Handle("load_file_selector"),
     configure_message |-> ConfigureMessageBox.handle,
     recent_files_container |-> Handle("recent_files_container"),
     recent_files |-> Handles(make_recent_files_items(0, scenes)),
     open_scene_settings |-> Handle("open_scene_settings")]

\* Every widget a message can be addressed to: the menu's own widgets, a widget that
\* is none of them, and the recent-file items of every build
Destinations ==
    {Handle(n) : n \in {"new_scene", "save", "save_as", "load", "close_scene",
                        "exit", "open_settings", "configure", "save_file_selector",
                        "load_file_selector", "open_scene_settings", "viewport"}}
    \cup {RecentHandle(b, i) : b \in 0..MaxBuilds, i \in 1..MaxRecent}

open_load_file_selector(fm) ==
    <<UiMsg("WindowMessage::OpenModal", fm.load_file_selector),
      UiMsg("FileSelectorMessage::Root", fm.load_file_selector)>>

open_save_file_selector(fm) ==
    <<UiMsg("WindowMessage::OpenModal", fm.save_file_selector),
      UiMsg("FileSelectorMessage::Root", fm.save_file_selector)>>

\* What the Save and Save As branches send to the UI
OpenSaveAsWindow(fm) ==
    <<UiMsg("WindowMessage::OpenModal", fm.save_file_selector),
      UiMsg("FileSelectorMessage::Path", fm.save_file_selector)>>

\* self.recent_files.iter().position(|i| *i == destination): 0 stands for None
Position(items, destination) ==
    IF \E i \in 1..Len(items) : items[i] = destination
    THEN CHOOSE i \in 1..Len(items) :
            /\ items[i] = destination
            /\ \A j \in 1..(i - 1) : items[j] # destination
    ELSE 0

\* What a call hands over: editor Messages sent, UI messages sent, widgets built
Out(sent, ui) == [sent |-> sent, ui |-> ui, built |-> <<>>]

\* The FileSelectorMessage::Commit branch of handle_ui_message
FileSelectorCommitted_Swapped(fm, path, destination) ==
    IF destination = fm.save_file_selector
    THEN Out(<<LoadScene(path)>>, <<>>)
    ELSE IF destination = fm.load_file_selector
    THEN Out(<<SaveScene(path)>>, <<>>)
    ELSE Out(<<>>, <<>>)

FileSelectorCommitted(fm, path, destination) ==
    IF destination = fm.save_file_selector
    THEN Out(<<SaveScene(path)>>, <<>>)
    ELSE IF destination = fm.load_file_selector
    THEN Out(<<LoadScene(path)>>, <<>>)
    ELSE Out(<<>>, <<>>)

\* The Save Scene branch
SaveClicked_AnyScene(fm, editor_scene) ==
    IF editor_scene.some
    THEN Out(<<SaveScene(editor_scene.path)>>, <<>>)
    ELSE Out(<<>>, OpenSaveAsWindow(fm))

SaveClicked(fm, editor_scene) ==
    IF editor_scene.some /\ editor_scene.path # NoPath
    THEN Out(<<SaveScene(editor_scene.path)>>, <<>>)
    ELSE Out(<<>>, OpenSaveAsWindow(fm))

\* The Save Scene As branch
SaveAsClicked(fm) == Out(<<>>, OpenSaveAsWindow(fm))

\* The Load Scene branch
LoadClicked(fm, needs_save) ==
    IF needs_save
    THEN Out(<<OpenSaveSceneConfirmationDialog("OpenLoadSceneDialog", NoPath)>>, <<>>)
    ELSE Out(<<>>, open_load_file_selector(fm))

\* The Close Scene branch
CloseSceneClicked(needs_save) ==
    IF needs_save
    THEN Out(<<OpenSaveSceneConfirmationDialog("CloseScene", NoPath)>>, <<>>)
    ELSE Out(<<CloseScene>>, <<>>)

\* The New Scene branch
NewSceneClicked(needs_save) ==
    IF needs_save
    THEN Out(<<OpenSaveSceneConfirmationDialog("MakeNewScene", NoPath)>>, <<>>)
    ELSE Out(<<NewScene>>, <<>>)

\* The Configure branch
ConfigureClicked_NoCheck(fm, editor_scene, panels) ==
    Out(<<>>, <<UiMsg("WindowMessage::OpenModal", panels.configurator_window)>>)

ConfigureClicked(fm, editor_scene, panels) ==
    IF ~editor_scene.some
    THEN Out(<<>>, <<UiMsg("WindowMessage::OpenModal", panels.configurator_window)>>)
    ELSE Out(<<>>, <<UiMsg("MessageBoxMessage::Open", fm.configure_message)>>)

\* The recent-file branch
RecentFileClicked_NoConfirm(fm, destination, needs_save, scenes) ==
    LET recent_file == Position(fm.recent_files, destination) IN
    IF recent_file # 0 /\ recent_file <= Len(scenes)
    THEN Out(<<LoadScene(scenes[recent_file])>>, <<>>)
    ELSE Out(<<>>, <<>>)

RecentFileClicked(fm, destination, needs_save, scenes) ==
    LET recent_file == Position(fm.recent_files, destination) IN
    IF recent_file # 0
    THEN IF recent_file <= Len(scenes)
         THEN IF needs_save
              THEN Out(<<OpenSaveSceneConfirmationDialog("LoadScene", scenes[recent_file])>>,
                       <<>>)
              ELSE Out(<<LoadScene(scenes[recent_file])>>, <<>>)
         ELSE Out(<<>>, <<>>)
    ELSE Out(<<>>, <<>>)

\* The MenuItemMessage::Click branch of handle_ui_message
MenuItemClicked(fm, destination, editor_scene, needs_save, scenes, panels) ==
    IF destination = fm.save THEN SaveClicked(fm, editor_scene)
    ELSE IF destination = fm.save_as THEN SaveAsClicked(fm)
    ELSE IF destination = fm.load THEN LoadClicked(fm, needs_save)
    ELSE IF destination = fm.close_scene THEN CloseSceneClicked(needs_save)
    ELSE IF destination = fm.exit THEN Out(<<Exit>>, <<>>)
    ELSE IF destination = fm.new_scene THEN NewSceneClicked(needs_save)
    ELSE IF destination = fm.configure THEN ConfigureClicked(fm, editor_scene, panels)
    ELSE IF destination = fm.open_settings
    THEN Out(<<>>, <<UiMsg("SettingsWindow::open", Handle("settings_window"))>>)
    ELSE IF destination = fm.open_scene_settings
    THEN Out(<<>>, <<UiMsg("SceneSettingsWindow::open", panels.scene_settings)>>)
    ELSE RecentFileClicked(fm, destination, needs_save, scenes)

\* FileMenu::handle_ui_message: the editor Messages it sends and the UI messages it
\* sends, in order.  needs_save is what is_scene_needs_to_be_saved(editor_scene)
\* returns to it; scenes is settings.recent.scenes as the handler sees it.  The
\* SettingsWindow's own handling of the message is not part of the file menu.
handle_ui_message(fm, data, destination, editor_scene, needs_save, scenes, panels) ==
    IF data.kind = "FileSelectorMessage::Commit"
    THEN FileSelectorCommitted(fm, data.path, destination)
    ELSE IF data.kind = "MenuItemMessage::Click"
    THEN MenuItemClicked(fm, destination, editor_scene, needs_save, scenes, panels)
    ELSE Out(<<>>, <<>>)

\* The record of a FileMenu call: the message it was given and what it handed over
Call(op, data, destination, out) ==
    [op |-> op, data |-> data, destination |-> destination,
     sent |-> out.sent, ui |-> out.ui, built |-> out.built]

\* No FileMenu call since the editor last changed its scene or its settings
Idle == Call("idle", OtherData, Handle("menu"), Out(<<>>, <<>>))

MenuInit ==
    \E scenes \in SceneLists :
        /\ scene = NoScene
        /\ unsaved = FALSE
        /\ settings = [recent |-> [scenes |-> scenes]]
        /\ file_menu = NewFileMenu(scenes)
        /\ widgets_built = 0
        /\ menu_call = Call("new", OtherData, Handle("menu"),
                            [Out(<<>>, <<>>) EXCEPT
                                !.built = make_recent_files_items(0, scenes)])
        /\ NoSound /\ NoJumper /\ NoJumpers /\ NoPlayer

\* The caller's side of handle_ui_message's editor_scene parameter: between two UI
\* messages the editor may open, close, edit or save its scene.
EditorSceneChanges ==
    \E es \in EditorScenes, ns \in BOOLEAN :
        /\ scene' = es
        /\ unsaved' = ns
        /\ menu_call' = Idle
        /\ UNCHANGED <<file_menu, widgets_built, settings>>
        /\ MenuOnly

\* The caller's side of the settings parameter: the editor owns settings.recent.scenes
\* and changes it without the menu's recent_files following until it calls
\* update_recent_files_list.
SettingsChange ==
    \E scenes \in SceneLists :
        /\ settings' = [settings EXCEPT !.recent.scenes = scenes]
        /\ menu_call' = Idle
        /\ UNCHANGED <<file_menu, widgets_built, scene, unsaved>>
        /\ MenuOnly

HandleUiMessage ==
    \E data \in MessageData, destination \in Destinations :
        /\ menu_call' = Call("handle_ui_message", data, destination,
                             handle_ui_message(file_menu, data, destination, scene,
                                               unsaved, settings.recent.scenes, Panels))
        /\ UNCHANGED <<file_menu, widgets_built, scene, unsaved, settings>>
        /\ MenuOnly

\* FileMenu::update_recent_files_list: the new recent_files, and the
\* MenuItemMessage::items sent to the container
update_recent_files_list(fm, build, scenes) ==
    LET items == make_recent_files_items(build, scenes) IN
    [fm |-> [fm EXCEPT !.recent_files = Handles(items)],
     out |-> [sent |-> <<>>,
              ui |-> <<UiMsg("MenuItemMessage::Items", fm.recent_files_container)>>,
              built |-> items]]

UpdateRecentFilesList ==
    LET r == update_recent_files_list(file_menu, widgets_built + 1,
                                      settings.recent.scenes) IN
    /\ widgets_built < MaxBuilds
    /\ widgets_built' = widgets_built + 1
    /\ file_menu' = r.fm
    /\ menu_call' = Call("update_recent_files_list", OtherData,
                         file_menu.recent_files_container, r.out)
    /\ UNCHANGED <<scene, unsaved, settings>>
    /\ MenuOnly

\* FileMenu::on_mode_changed
OnModeChanged ==
    \E is_edit \in BOOLEAN :
        /\ menu_call' = Call("on_mode_changed", OtherData, file_menu.menu,
                             Out(<<>>, <<UiMsg(IF is_edit THEN "WidgetMessage::Enabled(true)"
                                                          ELSE "WidgetMessage::Enabled(false)",
                                               file_menu.menu)>>))
        /\ UNCHANGED <<file_menu, widgets_built, scene, unsaved, settings>>
        /\ MenuOnly

MenuNext ==
    \/ EditorSceneChanges
    \/ SettingsChange
    \/ HandleUiMessage
    \/ UpdateRecentFilesList
    \/ OnModeChanged

-----------------------------------------------------------------------------
(* editor/src/scene/commands/sound_context.rs *)

\* fyrox::scene::sound::DistanceModel and Renderer
DistanceModels == {"None", "InverseDistance", "LinearDistance", "ExponentDistance"}
Renderers == {"Default", "HrtfRenderer"}

\* The commands define_sound_context_command! defines: name, value type, getter/setter
CommandNames == {"SetDistanceModelCommand", "SetRendererCommand"}
ValueType(name) == IF name = "SetDistanceModelCommand" THEN DistanceModels ELSE Renderers
Field(name) == IF name = "SetDistanceModelCommand" THEN "distance_model" ELSE "renderer"

\* sound_context.state().$get() and .$set(value)
Get(name, context) == context[Field(name)]
Set(name, context, value) == [context EXCEPT ![Field(name)] = value]

\* $name::new(value).  given and found are not fields of the command: given is the
\* value it was made with, found the context's value when it was first executed.
NewCommand(name, value) ==
    [name |-> name, value |-> value, state |-> "new", given |-> value, found |-> "unset"]

\* $name::swap: the command and the context afterwards
swap_KeepsValue(command, context) ==
    [command |-> command,
     context |-> Set(command.name, context, command.value)]

swap(command, context) ==
    LET old == Get(command.name, context) IN
    [command |-> [command EXCEPT !.value = old],
     context |-> Set(command.name, context, command.value)]

\* Command::execute and Command::revert
execute(command, context) == swap(command, context)
revert(command, context) == swap(command, context)

\* How many of the commands are executed: the editor's command stack executes and
\* reverts in stack order, so these are commands[1..Executed]
Executed == Cardinality({i \in 1..Len(commands) : commands[i].state = "executed"})

SoundInit ==
    /\ sound_context \in [distance_model : DistanceModels, renderer : Renderers]
    /\ commands = <<>>
    /\ sound_call = [op |-> "none", index |-> 0]
    /\ NoMenu /\ NoJumper /\ NoJumpers /\ NoPlayer

\* A new command is put on the stack in place of the reverted ones
CreateCommand ==
    \E name \in CommandNames :
        \E value \in ValueType(name) :
            /\ Executed < MaxCommands
            /\ commands' = Append(SubSeq(commands, 1, Executed), NewCommand(name, value))
            /\ sound_call' = [op |-> "new", index |-> Executed + 1]
            /\ UNCHANGED sound_context
            /\ SoundOnly

\* The stack executes (or redoes) the oldest command that is not executed
Execute ==
    /\ Executed < Len(commands)
    /\ LET i == Executed + 1
           r == execute(commands[i], sound_context)
           found == IF commands[i].state = "new"
                    THEN Get(commands[i].name, sound_context)
                    ELSE commands[i].found
       IN /\ commands' = [commands EXCEPT
                             ![i] = [r.command EXCEPT !.state = "executed", !.found = found]]
          /\ sound_context' = r.context
          /\ sound_call' = [op |-> "execute", index |-> i]
    /\ SoundOnly

\* The stack reverts (undoes) the newest executed command
Revert ==
    /\ Executed > 0
    /\ LET i == Executed
           r == revert(commands[i], sound_context)
       IN /\ commands' = [commands EXCEPT ![i] = [r.command EXCEPT !.state = "reverted"]]
          /\ sound_context' = r.context
          /\ sound_call' = [op |-> "revert", index |-> i]
    /\ SoundOnly

SoundNext == CreateCommand \/ Execute \/ Revert

-----------------------------------------------------------------------------
(* examples/scripting/src/lib.rs: Jumper *)

\* Times are in tenths of a second: the 0.6 of `self.timer > 0.6`
JumpThreshold == 6

\* Vector3::new(0.0, 200.0, 0.0), and no force
JumpForce == <<0, 200, 0>>
NoForce == <<0, 0, 0>>

\* context.dt
Dts == 1..MaxDt

\* timer and period as a saved scene or the inspector can set them
TimerValues == (0 - MaxTimer)..MaxTimer
PeriodValues == {0, MaxTimer}

\* PropertyChanged: the FieldKind of args.value, args.name and the f32 in the value
PropertyChanges(names, values) ==
    [kind : {"Object", "Collection"}, name : names, value : values]

\* Jumper::on_property_changed
Jumper_on_property_changed(self, args) ==
    IF args.kind = "Object"
    THEN IF args.name = "timer" THEN [self EXCEPT !.timer = args.value]
         ELSE IF args.name = "period" THEN [self EXCEPT !.period = args.value]
         ELSE self
    ELSE self

\* Jumper::on_update: the script afterwards and the force applied to the body
Jumper_on_update_NoAdvance(self, is_rigid_body, dt) ==
    IF is_rigid_body
    THEN IF self.timer > JumpThreshold
         THEN [self |-> [self EXCEPT !.timer = 0], force |-> JumpForce]
         ELSE [self |-> self, force |-> NoForce]
    ELSE [self |-> self, force |-> NoForce]

Jumper_on_update_UsesPeriod(self, is_rigid_body, dt) ==
    IF is_rigid_body
    THEN IF self.timer > self.period
         THEN [self |-> [self EXCEPT !.timer = 0 + dt], force |-> JumpForce]
         ELSE [self |-> [self EXCEPT !.timer = self.timer + dt], force |-> NoForce]
    ELSE [self |-> self, force |-> NoForce]

Jumper_on_update_AtThreshold(self, is_rigid_body, dt) ==
    IF is_rigid_body
    THEN IF self.timer >= JumpThreshold
         THEN [self |-> [self EXCEPT !.timer = 0 + dt], force |-> JumpForce]
         ELSE [self |-> [self EXCEPT !.timer = self.timer + dt], force |-> NoForce]
    ELSE [self |-> self, force |-> NoForce]

Jumper_on_update(self, is_rigid_body, dt) ==
    IF is_rigid_body
    THEN IF self.timer > JumpThreshold
         THEN [self |-> [self EXCEPT !.timer = 0 + dt], force |-> JumpForce]
         ELSE [self |-> [self EXCEPT !.timer = self.timer + dt], force |-> NoForce]
    ELSE [self |-> self, force |-> NoForce]

\* The record of a Jumper call.  timer is the timer on entry; jumped, added and
\* edited are `jumps` on entry.
JumperCall(op, dt, force) ==
    [op |-> op, dt |-> dt, force |-> force, timer |-> jumper.timer,
     jumped |-> jumps.jumped, added |-> jumps.added, edited |-> jumps.edited]

\* Sums of dt are kept up to one tenth past the threshold: all that is asked of
\* them is whether they exceed it
Capped(sum) == IF sum > JumpThreshold THEN JumpThreshold + 1 ELSE sum

\* A Jumper as loaded from a scene: any timer and period
JumperInit ==
    /\ jumper \in [timer : TimerValues, period : PeriodValues]
    /\ jumper_node \in BOOLEAN
    /\ jumps = [jumped |-> FALSE, added |-> 0, edited |-> FALSE]
    /\ jumper_call = [op |-> "none", dt |-> 0, force |-> NoForce, timer |-> jumper.timer,
                      jumped |-> FALSE, added |-> 0, edited |-> FALSE]
    /\ NoMenu /\ NoSound /\ NoJumpers /\ NoPlayer

JumperOnPropertyChanged ==
    \E args \in PropertyChanges({"timer", "period", "other"}, {0, MaxTimer}) :
        /\ jumper' = Jumper_on_property_changed(jumper, args)
        /\ jumps' = [jumps EXCEPT !.edited = @ \/ jumper'.timer # jumper.timer]
        /\ jumper_call' = JumperCall("on_property_changed", 0, NoForce)
        /\ UNCHANGED jumper_node
        /\ JumperOnly

JumperOnInit ==
    /\ jumper_call' = JumperCall("on_init", 0, NoForce)
    /\ UNCHANGED <<jumper, jumper_node, jumps>>
    /\ JumperOnly

JumperOnUpdate ==
    \E dt \in Dts :
        LET r == Jumper_on_update(jumper, jumper_node, dt) IN
        /\ jumper' = r.self
        /\ jumps' = IF r.force = JumpForce
                    THEN [jumped |-> TRUE, added |-> dt, edited |-> FALSE]
                    ELSE IF jumper_node
                    THEN [jumps EXCEPT !.added = Capped(@ + dt)]
                    ELSE jumps
        /\ jumper_call' = JumperCall("on_update", dt, r.force)
        /\ UNCHANGED jumper_node
        /\ JumperOnly

JumperNext == JumperOnPropertyChanged \/ JumperOnInit \/ JumperOnUpdate

-----------------------------------------------------------------------------
(* Two Jumpers side by side.  They start with the same timer, their nodes are of *)
(* the same kind, every frame updates both with the same dt and every edit of the *)
(* timer reaches both; the period of each is set on its own.                      *)

\* The record of a call on the two Jumpers: the callback, the property named, the
\* two timers on entry and the two forces applied
JumpersCall(op, name, forces) ==
    [op |-> op, name |-> name, forces |-> forces,
     before |-> <<jumpers.first.timer, jumpers.second.timer>>]

JumpersInit ==
    /\ \E timer \in TimerValues, period1 \in PeriodValues, period2 \in PeriodValues,
          is_rigid_body \in BOOLEAN :
          /\ jumpers = [first |-> [timer |-> timer, period |-> period1],
                        second |-> [timer |-> timer, period |-> period2],
                        is_rigid_body |-> is_rigid_body]
          /\ jumpers_call = [op |-> "new", name |-> "", forces |-> <<NoForce, NoForce>>,
                             before |-> <<timer, timer>>]
    /\ NoMenu /\ NoSound /\ NoJumper /\ NoPlayer

\* Jumper::on_property_changed(PERIOD) on one of the two
JumpersPeriodChanged ==
    \E which \in {"first", "second"}, args \in PropertyChanges({"period"}, PeriodValues) :
        /\ jumpers' = [jumpers EXCEPT ![which] = Jumper_on_property_changed(@, args)]
        /\ jumpers_call' = JumpersCall("on_property_changed", args.name,
                                       <<NoForce, NoForce>>)
        /\ JumpersOnly

\* Jumper::on_property_changed of the timer, or of a property the Jumper has not, on
\* both
JumpersTimerChanged ==
    \E args \in PropertyChanges({"timer", "other"}, {0, MaxTimer}) :
        /\ jumpers' = [jumpers EXCEPT
                          !.first = Jumper_on_property_changed(@, args),
                          !.second = Jumper_on_property_changed(@, args)]
        /\ jumpers_call' = JumpersCall("on_property_changed", args.name,
                                       <<NoForce, NoForce>>)
        /\ JumpersOnly

\* Jumper::on_init on both
JumpersOnInit ==
    /\ jumpers_call' = JumpersCall("on_init", "", <<NoForce, NoForce>>)
    /\ UNCHANGED jumpers
    /\ JumpersOnly

\* Jumper::on_update on both, with the same dt
JumpersOnUpdate ==
    \E dt \in Dts :
        LET r1 == Jumper_on_update(jumpers.first, jumpers.is_rigid_body, dt)
            r2 == Jumper_on_update(jumpers.second, jumpers.is_rigid_body, dt)
        IN /\ jumpers' = [jumpers EXCEPT !.first = r1.self, !.second = r2.self]
           /\ jumpers_call' = JumpersCall("on_update", "", <<r1.force, r2.force>>)
           /\ JumpersOnly

JumpersNext ==
    JumpersPeriodChanged \/ JumpersTimerChanged \/ JumpersOnInit \/ JumpersOnUpdate

-----------------------------------------------------------------------------
(* examples/scripting/src/lib.rs: Player *)

\* Angles are in milliradians: mouse_sens = 0.025 and 90.0f32.to_radians()
MouseSens == 25
PitchLimit == 1571

\* Player::default().speed, in tenths
DefaultSpeed == 1

\* Handle<Node>: 0 is Handle::NONE
NoNode == 0

\* VirtualKeyCode: the five keys of the controller and one more; "None" is an event
\* without virtual_keycode
ControllerKeys == {"W", "S", "A", "D", "Space"}
KeyCodes == ControllerKeys \cup {"E", "None"}
ElementStates == {"Pressed", "Released"}

\* Event<()>
OsEvent(kind, key, state, delta) ==
    [kind |-> kind, key |-> key, state |-> state, delta |-> delta]
KeyboardEvents ==
    {OsEvent("KeyboardInput", k, st, <<0, 0>>) : k \in KeyCodes, st \in ElementStates}
MouseDeltas == {0 - MouseStep, 0, MouseStep}
MouseEvents ==
    {OsEvent("MouseMotion", "None", "Released", <<d0, d1>>) :
        d0 \in MouseDeltas, d1 \in MouseDeltas}
OtherEvents == {OsEvent("Other", "None", "Released", <<0, 0>>)}
OsEvents == KeyboardEvents \cup MouseEvents \cup OtherEvents

\* InputController::default() and Player::default()
DefaultController ==
    [walk_forward |-> FALSE, walk_backward |-> FALSE, walk_left |-> FALSE,
     walk_right |-> FALSE, jump |-> FALSE]
DefaultPlayer ==
    [speed |-> DefaultSpeed, yaw |-> 0, pitch |-> 0, camera |-> NoNode,
     controller |-> DefaultController]

\* f32::max and f32::min
Max(a, b) == IF a >= b THEN a ELSE b
Min(a, b) == IF a <= b THEN a ELSE b

\* The KeyboardInput arm of Player::on_os_event
KeyboardInput_SameFlag(controller, key, state) ==
    IF key = "W" THEN [controller EXCEPT !.walk_forward = (state = "Pressed")]
    ELSE IF key = "S" THEN [controller EXCEPT !.walk_forward = (state = "Pressed")]
    ELSE IF key = "A" THEN [controller EXCEPT !.walk_left = (state = "Pressed")]
    ELSE IF key = "D" THEN [controller EXCEPT !.walk_right = (state = "Pressed")]
    ELSE IF key = "Space" THEN [controller EXCEPT !.jump = (state = "Pressed")]
    ELSE controller

KeyboardInput(controller, key, state) ==
    IF key = "W" THEN [controller EXCEPT !.walk_forward = (state = "Pressed")]
    ELSE IF key = "S" THEN [controller EXCEPT !.walk_backward = (state = "Pressed")]
    ELSE IF key = "A" THEN [controller EXCEPT !.walk_left = (state = "Pressed")]
    ELSE IF key = "D" THEN [controller EXCEPT !.walk_right = (state = "Pressed")]
    ELSE IF key = "Space" THEN [controller EXCEPT !.jump = (state = "Pressed")]
    ELSE controller

\* The MouseMotion arm of Player::on_os_event
MouseMotion_NoClamp(self, delta) ==
    [self EXCEPT !.yaw = self.yaw - MouseSens * delta[1],
                 !.pitch = self.pitch + delta[2] * MouseSens]

MouseMotion(self, delta) ==
    [self EXCEPT !.yaw = self.yaw - MouseSens * delta[1],
                 !.pitch = Min(Max(self.pitch + delta[2] * MouseSens, 0 - PitchLimit),
                               PitchLimit)]

\* Player::on_os_event
Player_on_os_event(self, event) ==
    IF event.kind = "MouseMotion" THEN MouseMotion(self, event.delta)
    ELSE IF event.kind = "KeyboardInput"
    THEN IF event.key # "None"
         THEN [self EXCEPT !.controller = KeyboardInput(self.controller, event.key,
                                                        event.state)]
         ELSE self
    ELSE self

\* Player::on_property_changed
Player_on_property_changed(self, args) ==
    IF args.kind = "Object"
    THEN IF args.name = "speed" THEN [self EXCEPT !.speed = args.value]
         ELSE IF args.name = "yaw" THEN [self EXCEPT !.yaw = args.value]
         ELSE IF args.name = "camera" THEN [self EXCEPT !.camera = args.value]
         ELSE self
    ELSE self

\* What the inspector reports: a new speed, yaw, camera or pitch
PlayerPropertyChanges ==
    PropertyChanges({"speed"}, {MaxSpeed}) \cup PropertyChanges({"yaw"}, {0, MaxYaw})
        \cup PropertyChanges({"camera"}, {NoNode}) \cup PropertyChanges({"pitch"}, {0})

\* node.children() with their names, as Player::on_init finds them
Child(handle, name) == [handle |-> handle, name |-> name]
ChildLists == {<<>>, <<Child(1, "Mesh"), Child(2, "Camera")>>,
               <<Child(2, "Camera"), Child(1, "Camera")>>}

\* Player::on_init: the first child named "Camera" becomes the camera
Player_on_init(self, children) ==
    IF \E i \in 1..Len(children) : children[i].name = "Camera"
    THEN LET first == CHOOSE i \in 1..Len(children) :
                         /\ children[i].name = "Camera"
                         /\ \A j \in 1..(i - 1) : children[j].name # "Camera"
         IN [self EXCEPT !.camera = children[first].handle]
    ELSE self

\* Vector3<f32>, as a triple.  A unit vector has length UnitLength, so that the
\* normalized vectors of the bodies below have integer components.
Vector3_x == <<5, 0, 0>>
Vector3_z == <<0, 0, 5>>
Vector3_default == <<0, 0, 0>>
UnitLength == Vector3_z[3]
Plus(u, v) == <<u[1] + v[1], u[2] + v[2], u[3] + v[3]>>
Minus(u, v) == <<u[1] - v[1], u[2] - v[2], u[3] - v[3]>>
Scale(v, k) == <<v[1] * k, v[2] * k, v[3] * k>>
Norm2(v) == v[1] * v[1] + v[2] * v[2] + v[3] * v[3]
Sqrt(n) == CHOOSE k \in 0..n : k * k = n

\* Option<Vector3>
None == [some |-> FALSE, v |-> Vector3_default]
Some(v) == [some |-> TRUE, v |-> v]
unwrap_or(option, v) == IF option.some THEN option.v ELSE v

\* look_vector().try_normalize(f32::EPSILON): None for a vector of no length, else the
\* vector divided by its length.  The bodies below have vectors of integer length.
try_normalize(v) ==
    IF Norm2(v) = 0 THEN None
    ELSE Some(<<(v[1] * UnitLength) \div Sqrt(Norm2(v)),
                (v[2] * UnitLength) \div Sqrt(Norm2(v)),
                (v[3] * UnitLength) \div Sqrt(Norm2(v))>>)

\* A vector whose length need not be an integer: v / sqrt(len2)
Over(v, len2) == [v |-> v, len2 |-> len2]

\* velocity.try_normalize(f32::EPSILON).map(|v| v.scale(speed)).unwrap_or_default()
normalize_and_scale(velocity, speed) ==
    IF Norm2(velocity) = 0 THEN Over(Vector3_default, 1)
    ELSE Over(Scale(velocity, speed), Norm2(velocity))

\* The 2.0 of `let speed = 2.0 * dt`
WalkSpeed == 2

\* The node the engine hands to on_update: whether it is a RigidBody, its look and
\* side vectors and its vertical velocity on entry
Body(is_rigid, look, side, lin_vel_y) ==
    [is_rigid |-> is_rigid, look |-> look, side |-> side, lin_vel_y |-> lin_vel_y]
NotABody == Body(FALSE, Vector3_default, Vector3_default, 0)
\* upright; upright, scaled by 2; turned about Y; tilted about X; of no size
Frames == {<<<<0, 0, 5>>, <<5, 0, 0>>>>, <<<<0, 0, 10>>, <<10, 0, 0>>>>,
           <<<<3, 0, 4>>, <<4, 0, -3>>>>, <<<<0, 3, 4>>, <<5, 0, 0>>>>,
           <<<<0, 0, 0>>, <<0, 0, 0>>>>}
Bodies ==
    {NotABody} \cup {Body(TRUE, f[1], f[2], y) : f \in Frames, y \in {0 - MaxFall, 0}}
UprightBodies == {NotABody, Body(TRUE, Vector3_z, Vector3_x, 0)}

\* The nodes of scene.graph a camera handle can refer to
SceneNodes == {1, 2}

\* UnitQuaternion::from_axis_angle
Rotation(axis, angle) == [axis |-> axis, angle |-> angle]
NoRotation == Rotation("none", 0)

\* What on_update writes: the node's rotation, the body's velocities (lin_vel x and z
\* over sqrt(len2)), the camera's rotation
Written(rotation, wrote_velocity, lin_vel, len2, ang_vel, camera_rotation) ==
    [rotation |-> rotation, wrote_velocity |-> wrote_velocity, lin_vel |-> lin_vel,
     len2 |-> len2, ang_vel |-> ang_vel, camera_rotation |-> camera_rotation]
NothingWritten ==
    Written(NoRotation, FALSE, Vector3_default, 1, Vector3_default, NoRotation)

\* The direction the controller asks for, from the normalized vectors
WalkDirection(controller, look_vector, side_vector) ==
    LET v0 == Vector3_default
        v1 == IF controller.walk_right THEN Minus(v0, side_vector) ELSE v0
        v2 == IF controller.walk_left THEN Plus(v1, side_vector) ELSE v1
        v3 == IF controller.walk_forward THEN Plus(v2, look_vector) ELSE v2
        v4 == IF controller.walk_backward THEN Minus(v3, look_vector) ELSE v3
    IN v4

\* Player::on_update
Player_on_update_OwnSpeed(self, body, dt) ==
    LET look_vector == unwrap_or(try_normalize(body.look), Vector3_z)
        side_vector == unwrap_or(try_normalize(body.side), Vector3_x)
        velocity == normalize_and_scale(
                        WalkDirection(self.controller, look_vector, side_vector),
                        self.speed * dt)
        camera_rotation == IF self.camera \in SceneNodes
                           THEN Rotation("x", self.pitch) ELSE NoRotation
    IN IF body.is_rigid
       THEN Written(Rotation("y", self.yaw), TRUE,
                    <<velocity.v[1] \div dt, body.lin_vel_y, velocity.v[3] \div dt>>,
                    velocity.len2, Vector3_default, camera_rotation)
       ELSE Written(Rotation("y", self.yaw), FALSE, Vector3_default, 1, Vector3_default,
                    camera_rotation)

Player_on_update(self, body, dt) ==
    LET look_vector == unwrap_or(try_normalize(body.look), Vector3_z)
        side_vector == unwrap_or(try_normalize(body.side), Vector3_x)
        speed == WalkSpeed * dt
        velocity == normalize_and_scale(
                        WalkDirection(self.controller, look_vector, side_vector), speed)
        camera_rotation == IF self.camera \in SceneNodes
                           THEN Rotation("x", self.pitch) ELSE NoRotation
    IN IF body.is_rigid
       THEN Written(Rotation("y", self.yaw), TRUE,
                    <<velocity.v[1] \div dt, body.lin_vel_y, velocity.v[3] \div dt>>,
                    velocity.len2, Vector3_default, camera_rotation)
       ELSE Written(Rotation("y", self.yaw), FALSE, Vector3_default, 1, Vector3_default,
                    camera_rotation)

\* The record of a Player call: the script on entry, the event given to on_os_event,
\* the node and dt given to on_update, and what the call wrote to the scene
PlayerCall(op, before, event, body, dt, written) ==
    [op |-> op, before |-> before, event |-> event, body |-> body, dt |-> dt,
     written |-> written]
NoEvent == OsEvent("none", "None", "Released", <<0, 0>>)

PlayerInit ==
    /\ player = DefaultPlayer
    /\ key_state = [k \in ControllerKeys |-> "none"]
    /\ player_call = PlayerCall("new", DefaultPlayer, NoEvent, NotABody, 0, NothingWritten)
    /\ NoMenu /\ NoSound /\ NoJumper /\ NoJumpers

\* Player::on_os_event for one of `events`
PlayerOnOsEvent(events) ==
    \E event \in events :
        LET after == Player_on_os_event(player, event) IN
        /\ after.yaw <= MaxYaw /\ after.yaw >= 0 - MaxYaw
        /\ player' = after
        /\ key_state' = IF event.kind = "KeyboardInput" /\ event.key \in ControllerKeys
                        THEN [key_state EXCEPT ![event.key] = event.state]
                        ELSE key_state
        /\ player_call' = PlayerCall("on_os_event", player, event, NotABody, 0,
                                     NothingWritten)
        /\ PlayerOnly

\* Player::on_property_changed for one of `changes`
PlayerOnPropertyChanged(changes) ==
    \E args \in changes :
        /\ player' = Player_on_property_changed(player, args)
        /\ player_call' = PlayerCall("on_property_changed", player, NoEvent, NotABody, 0,
                                     NothingWritten)
        /\ UNCHANGED key_state
        /\ PlayerOnly

PlayerOnInit ==
    \E children \in ChildLists :
        /\ player' = Player_on_init(player, children)
        /\ player_call' = PlayerCall("on_init", player, NoEvent, NotABody, 0,
                                     NothingWritten)
        /\ UNCHANGED key_state
        /\ PlayerOnly

\* Player::on_update on one of `bodies`
PlayerOnUpdate(bodies) ==
    \E body \in bodies, dt \in Dts :
        /\ player_call' = PlayerCall("on_update", player, NoEvent, body, dt,
                                     Player_on_update(player, body, dt))
        /\ UNCHANGED <<player, key_state>>
        /\ PlayerOnly

\* on_os_event alone: every keyboard event, one mouse motion, one other event
PlayerKeysNext ==
    PlayerOnOsEvent(KeyboardEvents \cup OtherEvents
                        \cup {OsEvent("MouseMotion", "None", "Released",
                                      <<MouseStep, MouseStep>>)})

\* Every callback: the keyboard events of one controller key and of no key, every
\* mouse motion, the body upright
PlayerNext ==
    \/ PlayerOnOsEvent(MouseEvents \cup OtherEvents
                           \cup {e \in KeyboardEvents : e.key \in {"W", "None"}})
    \/ PlayerOnPropertyChanged(PlayerPropertyChanges)
    \/ PlayerOnInit
    \/ PlayerOnUpdate(UprightBodies)

\* Walking: every keyboard event, the inspector setting the speed, the body in any
\* of Bodies
PlayerWalkNext ==
    \/ PlayerOnOsEvent(KeyboardEvents)
    \/ PlayerOnPropertyChanged(PropertyChanges({"speed"}, {MaxSpeed}))
    \/ PlayerOnUpdate(Bodies)

-----------------------------------------------------------------------------
(* Specifications: one per component, the other components not instantiated *)

SpecMenu == MenuInit /\ [][MenuNext]_vars

SpecSound == SoundInit /\ [][SoundNext]_vars

SpecJumper == JumperInit /\ [][JumperNext]_vars
\* The engine updates every script in every frame
SpecJumperLive == JumperInit /\ [][JumperNext]_vars /\ WF_vars(JumperOnUpdate)

SpecJumpers == JumpersInit /\ [][JumpersNext]_vars
SpecPlayerKeys == PlayerInit /\ [][PlayerKeysNext]_vars

SpecPlayer == PlayerInit /\ [][PlayerNext]_vars

SpecPlayerWalk == PlayerInit /\ [][PlayerWalkNext]_vars

-----------------------------------------------------------------------------
(* Claims about the file menu, checked under SpecMenu *)

\* The most recent call is handle_ui_message with a MenuItemMessage::Click for `item`
Clicked(item) ==
    /\ menu_call.op = "handle_ui_message"
    /\ menu_call.data = MenuClick
    /\ menu_call.destination = item

\* The index in recent_files the most recent message is addressed to, 0 if none
ClickedRecent == Position(file_menu.recent_files, menu_call.destination)

Sends(type) == \E i \in 1..Len(menu_call.sent) : menu_call.sent[i].type = type

Opens(window) ==
    \E i \in 1..Len(menu_call.ui) :
        menu_call.ui[i] = UiMsg("WindowMessage::OpenModal", window)

\* New Scene, Load Scene and Close Scene: confirmation when the scene needs saving,
\* the direct action otherwise
FixedItemsGuarded ==
    /\ Clicked(file_menu.new_scene) =>
          /\ menu_call.ui = <<>>
          /\ menu_call.sent =
                IF unsaved THEN <<OpenSaveSceneConfirmationDialog("MakeNewScene", NoPath)>>
                           ELSE <<NewScene>>
    /\ Clicked(file_menu.load) =>
          IF unsaved
          THEN /\ menu_call.sent =
                     <<OpenSaveSceneConfirmationDialog("OpenLoadSceneDialog", NoPath)>>
               /\ menu_call.ui = <<>>
          ELSE /\ menu_call.sent = <<>>
               /\ menu_call.ui = open_load_file_selector(file_menu)
               /\ Opens(file_menu.load_file_selector)
    /\ Clicked(file_menu.close_scene) =>
          /\ menu_call.ui = <<>>
          /\ menu_call.sent =
                IF unsaved THEN <<OpenSaveSceneConfirmationDialog("CloseScene", NoPath)>>
                           ELSE <<CloseScene>>

\* C1, as stated: a Click on New Scene, Load Scene, Close Scene or ANY recent-file
\* item sends exactly one OpenSaveSceneConfirmationDialog with the matching action
\* (and nothing else, and does not open the load selector) when the scene needs
\* saving, and takes the direct action without any confirmation dialog when it does
\* not.
C1_AnyRecentItemActs ==
    /\ FixedItemsGuarded
    /\ (menu_call.op = "handle_ui_message" /\ menu_call.data = MenuClick
            /\ ClickedRecent # 0) =>
          /\ Len(menu_call.sent) = 1
          /\ menu_call.sent[1].type =
                IF unsaved THEN "OpenSaveSceneConfirmationDialog" ELSE "LoadScene"
          /\ menu_call.sent[1].action = IF unsaved THEN "LoadScene" ELSE "none"
          /\ ~Opens(file_menu.load_file_selector)

\* C1, amended: the same for New Scene, Load Scene and Close Scene, and for a
\* recent-file item whose index has an entry in settings.recent.scenes: with the
\* scene needing saving exactly one OpenSaveSceneConfirmationDialog(LoadScene(path))
\* is sent, no NewScene, CloseScene or LoadScene, and the load selector is not
\* opened; otherwise exactly LoadScene(path) is sent and no confirmation dialog.
C1_SaveGuard ==
    /\ FixedItemsGuarded
    /\ (menu_call.op = "handle_ui_message" /\ menu_call.data = MenuClick
            /\ ClickedRecent # 0 /\ ClickedRecent <= Len(settings.recent.scenes)) =>
          /\ menu_call.ui = <<>>
          /\ menu_call.sent =
                IF unsaved
                THEN <<OpenSaveSceneConfirmationDialog(
                           "LoadScene", settings.recent.scenes[ClickedRecent])>>
                ELSE <<LoadScene(settings.recent.scenes[ClickedRecent])>>
    /\ (menu_call.op = "handle_ui_message" /\ menu_call.data = MenuClick /\ unsaved) =>
          /\ ~Sends("NewScene") /\ ~Sends("CloseScene") /\ ~Sends("LoadScene")
          /\ ~Opens(file_menu.load_file_selector)

C1_Witness ==
    /\ menu_call.op = "handle_ui_message" /\ menu_call.data = MenuClick
    /\ ClickedRecent = 2
    /\ Len(settings.recent.scenes) = 2
    /\ unsaved
    /\ menu_call.sent = <<OpenSaveSceneConfirmationDialog("LoadScene",
                                                          settings.recent.scenes[2])>>

\* C2: a Click on Save Scene sends exactly SaveScene(path) and opens nothing when a
\* scene exists and has a path; otherwise it sends nothing and opens the save file
\* selector modally.  A Click on Save Scene As always opens the save file selector
\* and sends nothing.
C2_SaveOrSaveAs ==
    /\ Clicked(file_menu.save) =>
          IF scene.some /\ scene.path # NoPath
          THEN /\ menu_call.sent = <<SaveScene(scene.path)>>
               /\ menu_call.ui = <<>>
          ELSE /\ menu_call.sent = <<>>
               /\ Opens(file_menu.save_file_selector)
    /\ Clicked(file_menu.save_as) =>
          /\ menu_call.sent = <<>>
          /\ Opens(file_menu.save_file_selector)

C2_Witness ==
    /\ Clicked(file_menu.save)
    /\ scene.some /\ scene.path = NoPath
    /\ Opens(file_menu.save_file_selector)

\* C3: a FileSelectorMessage::Commit(path) sends exactly SaveScene(path) when
\* addressed to save_file_selector, exactly LoadScene(path) when addressed to
\* load_file_selector (whether or not the scene needs saving) and nothing when
\* addressed to any other widget, menu items included; it sends no UI message.
C3_CommitRouting ==
    (menu_call.op = "handle_ui_message"
        /\ menu_call.data.kind = "FileSelectorMessage::Commit") =>
       /\ menu_call.ui = <<>>
       /\ menu_call.sent =
             IF menu_call.destination = file_menu.save_file_selector
             THEN <<SaveScene(menu_call.data.path)>>
             ELSE IF menu_call.destination = file_menu.load_file_selector
             THEN <<LoadScene(menu_call.data.path)>>
             ELSE <<>>

C3_Witness ==
    /\ menu_call.op = "handle_ui_message"
    /\ menu_call.data = Commit("c.rgs")
    /\ menu_call.destination = file_menu.load_file_selector
    /\ unsaved
    /\ menu_call.sent = <<LoadScene("c.rgs")>>

\* C4: a Click on Configure opens the configurator window if and only if no scene is
\* open, opens the warning message box instead when one is, and sends no editor
\* Message; and no call of the file menu opens the configurator window while a scene
\* is open.
C4_ConfigureOnlyWithoutScene ==
    /\ Clicked(file_menu.configure) =>
          /\ menu_call.sent = <<>>
          /\ Opens(Panels.configurator_window) <=> ~scene.some
          /\ scene.some =>
                menu_call.ui = <<UiMsg("MessageBoxMessage::Open", ConfigureMessageBox.handle)>>
    /\ Opens(Panels.configurator_window) => ~scene.some

C4_Witness ==
    /\ Clicked(file_menu.configure)
    /\ scene.some
    /\ menu_call.ui = <<UiMsg("MessageBoxMessage::Open", file_menu.configure_message)>>

\* C10: a Click addressed to the i-th handle of recent_files sends LoadScene of the
\* i-th entry of settings.recent.scenes as it is at the click, or the confirmation
\* dialog for it when the scene needs saving, and nothing if there is no i-th entry;
\* and right after update_recent_files_list recent_files has one handle per entry of
\* settings.recent.scenes, the i-th being the item built for the i-th entry.
C10_RecentFiles ==
    /\ (menu_call.op = "handle_ui_message" /\ menu_call.data = MenuClick
            /\ ClickedRecent # 0) =>
          menu_call.sent =
             IF ClickedRecent > Len(settings.recent.scenes) THEN <<>>
             ELSE IF unsaved
             THEN <<OpenSaveSceneConfirmationDialog(
                        "LoadScene", settings.recent.scenes[ClickedRecent])>>
             ELSE <<LoadScene(settings.recent.scenes[ClickedRecent])>>
    /\ menu_call.op = "update_recent_files_list" =>
          /\ Len(file_menu.recent_files) = Len(settings.recent.scenes)
          /\ Len(menu_call.built) = Len(settings.recent.scenes)
          /\ \A i \in 1..Len(settings.recent.scenes) :
                /\ menu_call.built[i].handle = file_menu.recent_files[i]
                /\ menu_call.built[i].text = to_string_lossy(settings.recent.scenes[i])
          /\ \A i, j \in 1..Len(file_menu.recent_files) :
                i # j => file_menu.recent_files[i] # file_menu.recent_files[j]

\* the stale case: the clicked item has no entry in settings.recent.scenes
C10_Witness ==
    /\ menu_call.op = "handle_ui_message" /\ menu_call.data = MenuClick
    /\ widgets_built > 0
    /\ ClickedRecent = 2
    /\ Len(settings.recent.scenes) = 1
    /\ menu_call.sent = <<>>

-----------------------------------------------------------------------------
(* Claims about the sound-context commands, checked under SpecSound *)

\* C5: for a command made with value v and first executed on a context holding c,
\* right after each of its executes the context holds v and the command c, and right
\* after each of its reverts the context holds c again and the command v.
C5_SwapRoundTrip ==
    sound_call.op \in {"execute", "revert"} =>
        LET command == commands[sound_call.index]
            held == Get(command.name, sound_context)
        IN IF sound_call.op = "execute"
           THEN held = command.given /\ command.value = command.found
           ELSE held = command.found /\ command.value = command.given

\* a command reverted after another command of its kind was executed and reverted
\* on top of it, with v and c different
C5_Witness ==
    /\ sound_call = [op |-> "revert", index |-> 1]
    /\ Len(commands) = 2
    /\ commands[2].state = "reverted"
    /\ commands[2].name = commands[1].name
    /\ commands[1].given # commands[1].found
    /\ commands[2].given # commands[1].given
    /\ Get(commands[1].name, sound_context) = commands[1].found

-----------------------------------------------------------------------------
(* Claims about the Jumper, checked under SpecJumper *)

\* The most recent call is on_update on a RigidBody node
JumperUpdated == jumper_call.op = "on_update" /\ jumper_node

\* The force is applied exactly in the updates entered with timer > 0.6; there the
\* timer is dt afterwards, and in every other update it has grown by dt and no force
\* is applied
JumpsWhenTimerExceeds ==
    JumperUpdated =>
        /\ jumper_call.force \in {JumpForce, NoForce}
        /\ jumper_call.force = JumpForce <=> jumper_call.timer > JumpThreshold
        /\ jumper_call.force = JumpForce => jumper.timer = jumper_call.dt
        /\ jumper_call.force = NoForce => jumper.timer = jumper_call.timer + jumper_call.dt

\* C6, as stated: the above, and between any two consecutive jumps the dt added to
\* the timer exceeds 0.6.
C6_JumpsFarApart ==
    /\ JumpsWhenTimerExceeds
    /\ (JumperUpdated /\ jumper_call.force = JumpForce /\ jumper_call.jumped) =>
          jumper_call.added > JumpThreshold

\* C6, amended: the above, and between two consecutive jumps with no
\* on_property_changed(TIMER) changing the timer in between, the dt added to the
\* timer (from the update of the first jump up to the update before the second)
\* exceeds 0.6.
C6_JumpTiming ==
    /\ JumpsWhenTimerExceeds
    /\ (JumperUpdated /\ jumper_call.force = JumpForce /\ jumper_call.jumped
            /\ ~jumper_call.edited) =>
          jumper_call.added > JumpThreshold

\* a second jump, entered with timer 0.7 after 0.7 of dt since the first
C6_Witness ==
    /\ JumperUpdated
    /\ jumper_call.force = JumpForce
    /\ jumper_call.jumped /\ ~jumper_call.edited
    /\ jumper_call.timer = JumpThreshold + 1
    /\ jumper.timer = jumper_call.dt

\* The most recent call is an update that applied the force
Jumped == jumper_call.op = "on_update" /\ jumper_call.force = JumpForce

\* A step of on_property_changed that changes the timer
TimerEdit == jumper_call'.op = "on_property_changed" /\ jumper'.timer # jumper.timer

\* On a node that is not a RigidBody no call applies a force and no update changes
\* the timer
NeverJumpsWithoutBody ==
    ~jumper_node =>
        /\ jumper_call.force = NoForce
        /\ jumper_call.op = "on_update" => jumper.timer = jumper_call.timer

\* C11, as stated (SpecJumperLive): updated in every frame on a RigidBody node, with
\* every dt at least a tenth of a second, the Jumper jumps infinitely often whatever
\* its first timer; on another node the timer is never changed by an update and no
\* jump ever happens.
C11_JumpsForever ==
    /\ jumper_node => []<>Jumped
    /\ []NeverJumpsWithoutBody

\* C11, amended (SpecJumperLive): updated in every frame on a RigidBody node, with
\* every dt at least a tenth of a second, the Jumper jumps infinitely often whatever
\* its first timer, provided on_property_changed(TIMER) changes the timer only
\* finitely often; on another node the timer is never changed by an update and no
\* jump ever happens.
C11_JumpsWhileUnedited ==
    /\ jumper_node => ([]<><<TimerEdit>>_vars \/ []<>Jumped)
    /\ []NeverJumpsWithoutBody

\* a jump that follows an earlier one after 0.7 of dt, the last frame the shortest
C11_Witness ==
    /\ jumper_node /\ Jumped
    /\ jumper_call.jumped /\ ~jumper_call.edited
    /\ jumper_call.added = JumpThreshold + 1
    /\ jumper_call.dt = 1

\* C12 (SpecJumpers): two Jumpers that start with the same timer and are updated
\* with the same dt values, their periods differing from the start or set apart by
\* on_property_changed(PERIOD) at any point, have the same timer after every call and
\* the force is applied to both or to neither in every update; the timer of each is
\* changed by on_update and on_property_changed(TIMER) only.
C12_PeriodHasNoInfluence ==
    /\ jumpers.first.timer = jumpers.second.timer
    /\ jumpers_call.forces[1] = jumpers_call.forces[2]
    /\ jumpers_call.forces[1] \in {JumpForce, NoForce}
    /\ jumpers_call.forces[1] = JumpForce => jumpers_call.op = "on_update"
    /\ ~(\/ jumpers_call.op = "on_update"
          \/ (jumpers_call.op = "on_property_changed" /\ jumpers_call.name = "timer")) =>
          <<jumpers.first.timer, jumpers.second.timer>> = jumpers_call.before

\* both jump in an update entered with timer 0.7, their periods being different
C12_Witness ==
    /\ jumpers.is_rigid_body
    /\ jumpers.first.period # jumpers.second.period
    /\ jumpers_call.op = "on_update"
    /\ jumpers_call.before = <<JumpThreshold + 1, JumpThreshold + 1>>
    /\ jumpers_call.forces = <<JumpForce, JumpForce>>

-----------------------------------------------------------------------------
(* Claims about the Player *)

\* C7 (SpecPlayerKeys): after any sequence of OS events each controller flag tells
\* whether the latest keyboard event for its key (W, S, A, D, Space) was Pressed, and
\* is false if there was none; and an event changes no flag but the one of its key:
\* events of another key, of no key or of another kind change none.
C7_FlagsFollowKeys ==
    LET c == player.controller
        b == player_call.before.controller
        e == player_call.event
        key == IF e.kind = "KeyboardInput" THEN e.key ELSE "None"
    IN /\ c.walk_forward = (key_state["W"] = "Pressed")
       /\ c.walk_backward = (key_state["S"] = "Pressed")
       /\ c.walk_left = (key_state["A"] = "Pressed")
       /\ c.walk_right = (key_state["D"] = "Pressed")
       /\ c.jump = (key_state["Space"] = "Pressed")
       /\ player_call.op = "on_os_event" =>
             /\ key # "W" => c.walk_forward = b.walk_forward
             /\ key # "S" => c.walk_backward = b.walk_backward
             /\ key # "A" => c.walk_left = b.walk_left
             /\ key # "D" => c.walk_right = b.walk_right
             /\ key # "Space" => c.jump = b.jump

\* S released while W, pressed earlier, is still held
C7_Witness ==
    /\ player_call.op = "on_os_event"
    /\ player_call.event = OsEvent("KeyboardInput", "S", "Released", <<0, 0>>)
    /\ player_call.before.controller.walk_backward
    /\ player.controller.walk_forward /\ ~player.controller.walk_backward
    /\ key_state["Space"] = "none" /\ ~player.controller.jump

\* C8 (SpecPlayer): from a default Player the pitch stays within -90 and +90 degrees;
\* a MouseMotion sets it to the old pitch plus 0.025 * delta.1, clamped to that range,
\* and takes 0.025 * delta.0 off the yaw, unclamped; no other call changes the pitch.
C8_PitchClamped ==
    LET e == player_call.event
        b == player_call.before
    IN /\ player.pitch >= 0 - PitchLimit /\ player.pitch <= PitchLimit
       /\ IF player_call.op = "on_os_event" /\ e.kind = "MouseMotion"
          THEN /\ player.pitch = Min(Max(b.pitch + MouseSens * e.delta[2], 0 - PitchLimit),
                                     PitchLimit)
               /\ player.yaw = b.yaw - MouseSens * e.delta[1]
          ELSE player.pitch = b.pitch

\* a motion that would take the pitch past +90 degrees, the yaw already past it
C8_Witness ==
    /\ player_call.op = "on_os_event" /\ player_call.event.kind = "MouseMotion"
    /\ player_call.before.pitch + MouseSens * player_call.event.delta[2] > PitchLimit
    /\ player.pitch = PitchLimit
    /\ player.yaw < 0 - PitchLimit

\* The most recent call is on_update; the vectors it normalized and the direction
\* (walk_left - walk_right) * side_vector + (walk_forward - walk_backward) * look_vector
One(flag) == IF flag THEN 1 ELSE 0
UpdatedLook == unwrap_or(try_normalize(player_call.body.look), Vector3_z)
UpdatedSide == unwrap_or(try_normalize(player_call.body.side), Vector3_x)
NetDirection ==
    LET c == player.controller IN
    Plus(Scale(UpdatedSide, One(c.walk_left) - One(c.walk_right)),
         Scale(UpdatedLook, One(c.walk_forward) - One(c.walk_backward)))

\* The horizontal velocity written is WalkSpeed * NetDirection / |NetDirection|, zero
\* with no net direction, whatever speed and jump are; the vertical velocity is the
\* body's own; the angular velocity is zero; nothing is written to another node
WalksAlongNetDirection ==
    LET w == player_call.written IN
    player_call.op = "on_update" =>
        IF player_call.body.is_rigid
        THEN /\ w.wrote_velocity
             /\ IF Norm2(NetDirection) = 0
                THEN w.lin_vel[1] = 0 /\ w.lin_vel[3] = 0
                ELSE /\ w.lin_vel[1] = WalkSpeed * NetDirection[1]
                     /\ w.lin_vel[3] = WalkSpeed * NetDirection[3]
                     /\ w.len2 = Norm2(NetDirection)
             /\ w.lin_vel[2] = player_call.body.lin_vel_y
             /\ w.ang_vel = Vector3_default
        ELSE ~w.wrote_velocity

\* The square of the horizontal speed written, times len2
HorizontalSpeed2 ==
    player_call.written.lin_vel[1] * player_call.written.lin_vel[1]
        + player_call.written.lin_vel[3] * player_call.written.lin_vel[3]

====
